---- MODULE Spec2Model ----
(***************************************************************************)
(* The example programs of Concurrent-Cpp as state machines.               *)
(*                                                                         *)
(* The repository holds many small programs, each with its own main.       *)
(* The variable prog names the program that runs; every program has its    *)
(* own initial predicate, its own next-state relation and its own          *)
(* specification.  Threads are named by strings ("main", "thread1") or,    *)
(* for a class that no main drives, by the numbers 1..n of its callers.    *)
(***************************************************************************)
EXTENDS Integers, Sequences, FiniteSets, TLC

VARIABLES
    prog,       \* the program (main) that runs
    pc,         \* thread -> the statement it is at
    i,          \* thread -> its loop variable
    part,       \* thread -> the insertions already made of the line it writes
    mutex,      \* mutex name -> the set of threads that hold it
    owns,       \* thread -> whether its std::unique_lock owns the mutex
    log_file,   \* the stream: [chunks, good, open]
    init_flag,  \* std::once_flag: "fresh", "running" or "done"
    handle,     \* std::thread object -> the thread it owns, or "none"
    joins,      \* the joins that have returned: <<std::thread object, thread>>
    terminated, \* "no", or why std::terminate was called
    throw_at,   \* the iteration at which main throws
    cell,       \* the shared state of the promise: [value, valid, broken]
    got,        \* thread -> what its get() returned: <<>> or <<value>>
    status,     \* what wait_for returned: "none", "timeout", "no_timeout" or "ready"
    dataQueue,  \* std::deque<int> dataQueue, front first
    waiting,    \* the threads blocked on the condition variable
    received,   \* the values the consumer has printed, in order
    message,    \* std::string message of Example 6: its text, or "torn"
    alive,      \* whether message and modifier of Example 6 still exist
    said        \* thread -> the message text it printed, or "nothing"

lockVars == <<mutex, owns, init_flag>>

taskVars == <<handle, joins, terminated, throw_at>>

futureVars == <<cell, got, status>>

queueVars == <<dataQueue, waiting, received>>

detachVars == <<message, alive, said>>

vars == <<prog, pc, i, part, log_file, lockVars, taskVars, futureVars, queueVars, detachVars>>

\* What a program that has no threads to own or no promises leaves as it is.
NoTasks ==
    /\ handle = <<>>
    /\ joins = <<>>
    /\ terminated = "no"
    /\ throw_at = 0

NoFutures ==
    /\ cell = [value |-> <<>>, valid |-> FALSE, broken |-> FALSE]
    /\ got = <<>>
    /\ status = "none"

NoQueue ==
    /\ dataQueue = <<>>
    /\ waiting = {}
    /\ received = <<>>

NoDetach ==
    /\ message = ""
    /\ alive = FALSE
    /\ said = <<>>

(***************************************************************************)
(* Bounds.  The loops of the sources run 100 times; the model runs them    *)
(* NumCalls times.                                                         *)
(***************************************************************************)
NumCalls == 3

(***************************************************************************)
(* Streams.  A stream is the sequence of the chunks inserted so far, one   *)
(* chunk per operator<<, with the stream's state: good is false once an    *)
(* insertion has failed (failbit/badbit; no example sets an exception      *)
(* mask, so a failed insertion returns normally), and every insertion on   *)
(* a stream that is not good is a no-op.                                   *)
(***************************************************************************)
NewStream == [chunks |-> <<>>, good |-> TRUE, open |-> TRUE]

Insert(s, c, ok) ==
    IF s.good /\ s.open /\ ok
    THEN [s EXCEPT !.chunks = Append(@, c)]
    ELSE [s EXCEPT !.good = FALSE]

\* log_file << "From " << thread_id << ": " << value << std::endl
LogLine(thread_id, value) ==
    <<"From ", thread_id, ": ", ToString(value), "\n">>

(***************************************************************************)
(* Mutexes.  A std::mutex is the set of the threads that hold it; lock()   *)
(* blocks until that set is empty.                                         *)
(***************************************************************************)
Free(m) == mutex[m] = {}

Lock(m, t) == [mutex EXCEPT ![m] = @ \cup {t}]

Unlock(m, t) == [mutex EXCEPT ![m] = @ \ {t}]

Held(t) == {m \in DOMAIN mutex : t \in mutex[m]}

(***************************************************************************)
(* print_shared_data on global_mutex (thread_synchronization_example.cpp   *)
(* 12-49) and Logger::log on file_mutex (54-116).  The two programs have   *)
(* the same shape: thread1 makes the calls -1, -2, ..., main the calls     *)
(* 0, 1, ..., and main then joins thread1.                                 *)
(***************************************************************************)
LogProgs == {"print_shared_data", "Logger"}

LogThreads == {"main", "thread1"}

LogMutex == IF prog = "print_shared_data" THEN "global_mutex" ELSE "file_mutex"

ThreadId(t) == IF t = "main" THEN "Main Thread" ELSE "Thread 1"

FirstValue(t) == IF t = "main" THEN 0 ELSE -1

NextValue(t, v) == IF t = "main" THEN v + 1 ELSE v - 1

\* i < 100 in main, i >= -100 in the thread
InLoop(t, v) == IF t = "main" THEN v < NumCalls ELSE v >= -NumCalls

\* The calls thread t has completed when its loop variable is v.
CallsDone(t, v) == IF t = "main" THEN v ELSE -1 - v

LogInit ==
    /\ prog \in LogProgs
    /\ pc = [t \in LogThreads |-> "for"]
    /\ i = [t \in LogThreads |-> FirstValue(t)]
    /\ part = [t \in LogThreads |-> 0]
    /\ mutex = [m \in {LogMutex} |-> {}]
    /\ owns = [t \in LogThreads |-> FALSE]
    /\ log_file = NewStream
    /\ init_flag = "fresh"
    /\ NoTasks
    /\ NoFutures
    /\ NoQueue
    /\ NoDetach

\* The loop test: call the logging function, or leave the loop.
LogFor(t) ==
    /\ prog \in LogProgs
    /\ pc[t] = "for"
    /\ pc' = [pc EXCEPT ![t] = IF InLoop(t, i[t]) THEN "lock_guard"
                               ELSE IF t = "main" THEN "join" ELSE "done"]
    /\ UNCHANGED <<prog, queueVars, detachVars, i, part, mutex, owns, log_file, init_flag, taskVars, futureVars>>

\* A logging function without its lock_guard (as FileWriter writes).
LogLockMissing(t) ==
    /\ prog \in LogProgs
    /\ pc[t] = "lock_guard"
    /\ pc' = [pc EXCEPT ![t] = "insert"]
    /\ UNCHANGED <<prog, queueVars, detachVars, i, part, mutex, owns, log_file, init_flag, taskVars, futureVars>>

\* std::lock_guard<std::mutex> lock(m): blocks until the mutex is free.
LogLock(t) ==
    /\ prog \in LogProgs
    /\ pc[t] = "lock_guard"
    /\ Free(LogMutex)
    /\ mutex' = Lock(LogMutex, t)
    /\ pc' = [pc EXCEPT ![t] = "insert"]
    /\ UNCHANGED <<prog, queueVars, detachVars, i, part, owns, log_file, init_flag, taskVars, futureVars>>

\* One operator<< of the statement that writes the line.
LogInsert(t) ==
    /\ prog \in LogProgs
    /\ pc[t] = "insert"
    /\ \E ok \in BOOLEAN :
          log_file' = Insert(log_file, LogLine(ThreadId(t), i[t])[part[t] + 1], ok)
    /\ IF part[t] + 1 = Len(LogLine(ThreadId(t), i[t]))
       THEN /\ part' = [part EXCEPT ![t] = 0]
            /\ pc' = [pc EXCEPT ![t] = "unlock"]
       ELSE /\ part' = [part EXCEPT ![t] = @ + 1]
            /\ pc' = pc
    /\ UNCHANGED <<prog, queueVars, detachVars, i, mutex, owns, init_flag, taskVars, futureVars>>

\* An unlock written by hand after the write, skipped when the write failed.
GuardReleaseUnlessFailed(m, t) == IF log_file.good THEN Unlock(m, t) ELSE mutex

\* A lock taken by hand and never given back.
GuardReleaseNever(m, t) == mutex

\* The mutex as ~lock_guard leaves it.
GuardRelease(m, t) == Unlock(m, t)

\* The function returns: ~lock_guard unlocks, and the loop steps.
LogUnlock(t) ==
    /\ prog \in LogProgs
    /\ pc[t] = "unlock"
    /\ mutex' = GuardRelease(LogMutex, t)
    /\ i' = [i EXCEPT ![t] = NextValue(t, @)]
    /\ pc' = [pc EXCEPT ![t] = "for"]
    /\ UNCHANGED <<prog, queueVars, detachVars, part, owns, log_file, init_flag, taskVars, futureVars>>

\* thread1.join() returns once thread1 has finished; main returns.
LogJoin ==
    /\ prog \in LogProgs
    /\ pc["main"] = "join"
    /\ pc["thread1"] = "done"
    /\ pc' = [pc EXCEPT !["main"] = "done"]
    /\ UNCHANGED <<prog, queueVars, detachVars, i, part, mutex, owns, log_file, init_flag, taskVars, futureVars>>

LogNext ==
    \/ \E t \in LogThreads : LogFor(t)
    \/ \E t \in LogThreads : LogLock(t)
    \/ \E t \in LogThreads : LogInsert(t)
    \/ \E t \in LogThreads : LogUnlock(t)
    \/ LogJoin

SpecLog == LogInit /\ [][LogNext]_vars

\* The steps of one thread.  A thread that can run is run in the end; a
\* std::mutex promises a waiter nothing while others keep taking it.
LogThread(t) ==
    \/ LogFor(t)
    \/ LogLock(t)
    \/ LogInsert(t)
    \/ LogUnlock(t)
    \/ (t = "main" /\ LogJoin)

FairSpecLog == SpecLog /\ \A t \in LogThreads : WF_vars(LogThread(t))

(***************************************************************************)
(* SafeLogger (thread_synchronization_example.cpp 121-145).  No main       *)
(* drives the class: NumCallers threads call log_data, CallerCalls times   *)
(* each, with the call's number as the value.                              *)
(*                                                                         *)
(* std::lock(mutex1, mutex2) locks one mutex, blocking, and tries the      *)
(* other; when the try fails it unlocks what it holds and starts again.    *)
(* The standard fixes neither the mutex it starts with nor the one it      *)
(* blocks on after a failed try, and lets try_lock fail spuriously: all    *)
(* three are choices here.                                                 *)
(***************************************************************************)
NumCallers == 2

CallerCalls == 1

CallerName == <<"caller1", "caller2", "caller3", "caller4">>

Callers == {CallerName[k] : k \in 1..NumCallers}

SafeMutexes == {"mutex1", "mutex2"}

LockLabel(m) == IF m = "mutex1" THEN "lock_mutex1" ELSE "lock_mutex2"

Other(m) == IF m = "mutex1" THEN "mutex2" ELSE "mutex1"

SafeInit ==
    /\ prog = "SafeLogger"
    /\ pc = [t \in Callers |-> "call"]
    /\ i = [t \in Callers |-> 1]
    /\ part = [t \in Callers |-> 0]
    /\ mutex = [m \in SafeMutexes |-> {}]
    /\ owns = [t \in Callers |-> FALSE]
    /\ log_file = NewStream
    /\ init_flag = "fresh"
    /\ NoTasks
    /\ NoFutures
    /\ NoQueue
    /\ NoDetach

\* The caller's next call of log_data, which starts with std::lock.
SafeCall(t) ==
    /\ prog = "SafeLogger"
    /\ pc[t] = "call"
    /\ \E m \in SafeMutexes :
          pc' = [pc EXCEPT ![t] = IF i[t] <= CallerCalls THEN LockLabel(m) ELSE "done"]
    /\ UNCHANGED <<prog, queueVars, detachVars, i, part, log_file, lockVars, taskVars, futureVars>>

\* std::lock blocks on mutex m, holding nothing.
SafeLockFirst(t, m) ==
    /\ prog = "SafeLogger"
    /\ pc[t] = LockLabel(m)
    /\ Free(m)
    /\ mutex' = Lock(m, t)
    /\ pc' = [pc EXCEPT ![t] = "try_lock"]
    /\ UNCHANGED <<prog, queueVars, detachVars, i, part, owns, log_file, init_flag, taskVars, futureVars>>

\* std::lock that keeps the mutex it holds when the try of the other fails.
BackOffKeeping(m, t) == mutex

\* The mutexes after a failed try_lock: std::lock gives up the one it holds.
BackOff(m, t) == Unlock(m, t)

\* std::lock holds m and tries the other mutex.
SafeTryOther(t, m) ==
    /\ prog = "SafeLogger"
    /\ pc[t] = "try_lock"
    /\ t \in mutex[m]
    /\ \E ok \in BOOLEAN :
          IF Free(Other(m)) /\ ok
          THEN /\ mutex' = Lock(Other(m), t)
               /\ pc' = [pc EXCEPT ![t] = "insert"]
          ELSE /\ mutex' = BackOff(m, t)
               /\ \E n \in SafeMutexes : pc' = [pc EXCEPT ![t] = LockLabel(n)]
    /\ UNCHANGED <<prog, queueVars, detachVars, i, part, owns, log_file, init_flag, taskVars, futureVars>>

\* One operator<< of log_file << "From " << thread_id << ": " << value << std::endl
SafeInsert(t) ==
    /\ prog = "SafeLogger"
    /\ pc[t] = "insert"
    /\ \E ok \in BOOLEAN :
          log_file' = Insert(log_file, LogLine(t, i[t])[part[t] + 1], ok)
    /\ IF part[t] + 1 = Len(LogLine(t, i[t]))
       THEN /\ part' = [part EXCEPT ![t] = 0]
            /\ pc' = [pc EXCEPT ![t] = "unlock2"]
       ELSE /\ part' = [part EXCEPT ![t] = @ + 1]
            /\ pc' = pc
    /\ UNCHANGED <<prog, queueVars, detachVars, i, lockVars, taskVars, futureVars>>

\* ~lock2: the guard that adopted mutex2 is destroyed first.
SafeUnlock2(t) ==
    /\ prog = "SafeLogger"
    /\ pc[t] = "unlock2"
    /\ mutex' = GuardRelease("mutex2", t)
    /\ pc' = [pc EXCEPT ![t] = "unlock1"]
    /\ UNCHANGED <<prog, queueVars, detachVars, i, part, owns, log_file, init_flag, taskVars, futureVars>>

\* ~lock1, and log_data returns.
SafeUnlock1(t) ==
    /\ prog = "SafeLogger"
    /\ pc[t] = "unlock1"
    /\ mutex' = GuardRelease("mutex1", t)
    /\ i' = [i EXCEPT ![t] = @ + 1]
    /\ pc' = [pc EXCEPT ![t] = "call"]
    /\ UNCHANGED <<prog, queueVars, detachVars, part, owns, log_file, init_flag, taskVars, futureVars>>

SafeNext ==
    \/ \E t \in Callers : SafeCall(t)
    \/ \E t \in Callers, m \in SafeMutexes : SafeLockFirst(t, m)
    \/ \E t \in Callers, m \in SafeMutexes : SafeTryOther(t, m)
    \/ \E t \in Callers : SafeInsert(t)
    \/ \E t \in Callers : SafeUnlock2(t)
    \/ \E t \in Callers : SafeUnlock1(t)

SpecSafe == SafeInit /\ [][SafeNext]_vars

(***************************************************************************)
(* DeferredLogger (thread_synchronization_example.cpp 150-194).  main      *)
(* takes the lock from transfer_lock, unlocks it and returns; the class's  *)
(* log_data has no caller in the repository, so NumCallers threads call    *)
(* it, CallerCalls times each, while main runs.                            *)
(***************************************************************************)
DeferredThreads == {"main"} \cup Callers

DeferredInit ==
    /\ prog = "DeferredLogger"
    /\ pc = [t \in DeferredThreads |-> IF t = "main" THEN "transfer_lock" ELSE "call"]
    /\ i = [t \in DeferredThreads |-> 1]
    /\ part = [t \in DeferredThreads |-> 0]
    /\ mutex = [m \in {"file_mutex"} |-> {}]
    /\ owns = [t \in DeferredThreads |-> FALSE]
    /\ log_file = NewStream
    /\ init_flag = "fresh"
    /\ NoTasks
    /\ NoFutures
    /\ NoQueue
    /\ NoDetach

\* std::unique_lock<std::mutex> lock = deferred_logger.transfer_lock():
\* the lock constructed on file_mutex locks it and is moved to the caller.
TransferLock ==
    /\ prog = "DeferredLogger"
    /\ pc["main"] = "transfer_lock"
    /\ Free("file_mutex")
    /\ mutex' = Lock("file_mutex", "main")
    /\ owns' = [owns EXCEPT !["main"] = TRUE]
    /\ pc' = [pc EXCEPT !["main"] = "unlock"]
    /\ UNCHANGED <<prog, queueVars, detachVars, i, part, log_file, init_flag, taskVars, futureVars>>

\* lock.unlock()
ExplicitUnlock ==
    /\ prog = "DeferredLogger"
    /\ pc["main"] = "unlock"
    /\ owns["main"]
    /\ mutex' = Unlock("file_mutex", "main")
    /\ owns' = [owns EXCEPT !["main"] = FALSE]
    /\ pc' = [pc EXCEPT !["main"] = "return"]
    /\ UNCHANGED <<prog, queueVars, detachVars, i, part, log_file, init_flag, taskVars, futureVars>>

\* A destructor that unlocks the mutex whether or not the lock owns it.
UniqueReleaseNotOwned(m, t) == [mutex EXCEPT ![m] = {}]

\* The mutex as ~unique_lock leaves it: unlocked only if the lock owns it.
UniqueRelease(m, t) == IF owns[t] THEN Unlock(m, t) ELSE mutex

\* return 0: ~unique_lock runs.
DeferredReturn ==
    /\ prog = "DeferredLogger"
    /\ pc["main"] = "return"
    /\ mutex' = UniqueRelease("file_mutex", "main")
    /\ owns' = [owns EXCEPT !["main"] = FALSE]
    /\ pc' = [pc EXCEPT !["main"] = "done"]
    /\ UNCHANGED <<prog, queueVars, detachVars, i, part, log_file, init_flag, taskVars, futureVars>>

\* The caller's next call of log_data, which constructs its lock with
\* std::defer_lock: the lock does not own the mutex yet.
DeferredCall(t) ==
    /\ prog = "DeferredLogger"
    /\ pc[t] = "call"
    /\ pc' = [pc EXCEPT ![t] = IF i[t] <= CallerCalls THEN "lock" ELSE "done"]
    /\ owns' = [owns EXCEPT ![t] = FALSE]
    /\ UNCHANGED <<prog, queueVars, detachVars, i, part, mutex, log_file, init_flag, taskVars, futureVars>>

\* lock.lock() blocks until file_mutex is free.
DeferredLock(t) ==
    /\ prog = "DeferredLogger"
    /\ pc[t] = "lock"
    /\ Free("file_mutex")
    /\ mutex' = Lock("file_mutex", t)
    /\ owns' = [owns EXCEPT ![t] = TRUE]
    /\ pc' = [pc EXCEPT ![t] = "insert"]
    /\ UNCHANGED <<prog, queueVars, detachVars, i, part, log_file, init_flag, taskVars, futureVars>>

\* One operator<< of log_file << "From " << thread_id << ": " << value << std::endl
DeferredInsert(t) ==
    /\ prog = "DeferredLogger"
    /\ pc[t] = "insert"
    /\ \E ok \in BOOLEAN :
          log_file' = Insert(log_file, LogLine(t, i[t])[part[t] + 1], ok)
    /\ IF part[t] + 1 = Len(LogLine(t, i[t]))
       THEN /\ part' = [part EXCEPT ![t] = 0]
            /\ pc' = [pc EXCEPT ![t] = "unlock"]
       ELSE /\ part' = [part EXCEPT ![t] = @ + 1]
            /\ pc' = pc
    /\ UNCHANGED <<prog, queueVars, detachVars, i, lockVars, taskVars, futureVars>>

\* log_data returns: ~unique_lock runs.
DeferredUnlock(t) ==
    /\ prog = "DeferredLogger"
    /\ pc[t] = "unlock"
    /\ t # "main"
    /\ mutex' = UniqueRelease("file_mutex", t)
    /\ owns' = [owns EXCEPT ![t] = FALSE]
    /\ i' = [i EXCEPT ![t] = @ + 1]
    /\ pc' = [pc EXCEPT ![t] = "call"]
    /\ UNCHANGED <<prog, queueVars, detachVars, part, log_file, init_flag, taskVars, futureVars>>

DeferredNext ==
    \/ TransferLock
    \/ ExplicitUnlock
    \/ DeferredReturn
    \/ \E t \in Callers : DeferredCall(t)
    \/ \E t \in Callers : DeferredLock(t)
    \/ \E t \in Callers : DeferredInsert(t)
    \/ \E t \in Callers : DeferredUnlock(t)

SpecDeferred == DeferredInit /\ [][DeferredNext]_vars

(***************************************************************************)
(* The programs whose logging functions hold a lock across the write.      *)
(***************************************************************************)
LockedInit == LogInit \/ SafeInit \/ DeferredInit

LockedNext == LogNext \/ SafeNext \/ DeferredNext

SpecLocked == LockedInit /\ [][LockedNext]_vars

(***************************************************************************)
(* OnceLogger (thread_synchronization_example.cpp 199-240).  main and      *)
(* thread1 call log_data in their loops, run OnceCalls times here.  The    *)
(* stream is opened by initialize, under std::call_once; log_data then     *)
(* writes the stream, and nothing locks file_mutex.                        *)
(***************************************************************************)
OnceCalls == 1

OnceInLoop(t, v) == IF t = "main" THEN v < OnceCalls ELSE v >= -OnceCalls

OnceInit ==
    /\ prog = "OnceLogger"
    /\ pc = [t \in LogThreads |-> "for"]
    /\ i = [t \in LogThreads |-> FirstValue(t)]
    /\ part = [t \in LogThreads |-> 0]
    /\ mutex = [m \in {"file_mutex"} |-> {}]
    /\ owns = [t \in LogThreads |-> FALSE]
    /\ log_file = [NewStream EXCEPT !.open = FALSE]
    /\ init_flag = "fresh"
    /\ NoTasks
    /\ NoFutures
    /\ NoQueue
    /\ NoDetach

\* The loop test: call log_data, or leave the loop.
OnceFor(t) ==
    /\ prog = "OnceLogger"
    /\ pc[t] = "for"
    /\ pc' = [pc EXCEPT ![t] = IF OnceInLoop(t, i[t]) THEN "call_once"
                               ELSE IF t = "main" THEN "join" ELSE "done"]
    /\ UNCHANGED <<prog, queueVars, detachVars, i, part, log_file, lockVars, taskVars, futureVars>>

\* A call_once whose test of the flag and whose setting of it are not one
\* step: every caller that finds initialize not finished runs it.
CallOnceUnguarded(t) ==
    /\ prog = "OnceLogger"
    /\ pc[t] = "call_once"
    /\ IF init_flag # "done"
       THEN /\ init_flag' = "running"
            /\ pc' = [pc EXCEPT ![t] = "initialize"]
       ELSE /\ init_flag' = init_flag
            /\ pc' = [pc EXCEPT ![t] = "insert"]
    /\ UNCHANGED <<prog, queueVars, detachVars, i, part, log_file, mutex, owns, taskVars, futureVars>>

\* std::call_once(init_flag, ...): the first caller runs initialize, a
\* caller that arrives while it runs waits, a later caller passes.
OnceCallOnce(t) ==
    /\ prog = "OnceLogger"
    /\ pc[t] = "call_once"
    /\ init_flag # "running"
    /\ IF init_flag = "fresh"
       THEN /\ init_flag' = "running"
            /\ pc' = [pc EXCEPT ![t] = "initialize"]
       ELSE /\ init_flag' = init_flag
            /\ pc' = [pc EXCEPT ![t] = "insert"]
    /\ UNCHANGED <<prog, queueVars, detachVars, i, part, log_file, mutex, owns, taskVars, futureVars>>

\* initialize(): log_file.open("once_log.txt"); call_once returns.
OnceInitialize(t) ==
    /\ prog = "OnceLogger"
    /\ pc[t] = "initialize"
    /\ log_file' = [log_file EXCEPT !.open = TRUE]
    /\ init_flag' = "done"
    /\ pc' = [pc EXCEPT ![t] = "insert"]
    /\ UNCHANGED <<prog, queueVars, detachVars, i, part, mutex, owns, taskVars, futureVars>>

\* One operator<< of log_file << "From " << thread_id << ": " << value << std::endl;
\* after the last one log_data returns and the loop steps.
OnceInsert(t) ==
    /\ prog = "OnceLogger"
    /\ pc[t] = "insert"
    /\ log_file' = Insert(log_file, LogLine(ThreadId(t), i[t])[part[t] + 1], TRUE)
    /\ IF part[t] + 1 = Len(LogLine(ThreadId(t), i[t]))
       THEN /\ part' = [part EXCEPT ![t] = 0]
            /\ i' = [i EXCEPT ![t] = NextValue(t, @)]
            /\ pc' = [pc EXCEPT ![t] = "for"]
       ELSE /\ part' = [part EXCEPT ![t] = @ + 1]
            /\ UNCHANGED <<i, pc>>
    /\ UNCHANGED <<prog, queueVars, detachVars, lockVars, taskVars, futureVars>>

\* thread1.join() returns once thread1 has finished; main returns.
OnceJoin ==
    /\ prog = "OnceLogger"
    /\ pc["main"] = "join"
    /\ pc["thread1"] = "done"
    /\ pc' = [pc EXCEPT !["main"] = "done"]
    /\ UNCHANGED <<prog, queueVars, detachVars, i, part, log_file, lockVars, taskVars, futureVars>>

OnceNext ==
    \/ \E t \in LogThreads : OnceFor(t)
    \/ \E t \in LogThreads : OnceCallOnce(t)
    \/ \E t \in LogThreads : OnceInitialize(t)
    \/ \E t \in LogThreads : OnceInsert(t)
    \/ OnceJoin

SpecOnce == OnceInit /\ [][OnceNext]_vars

(***************************************************************************)
(* The four classes that bundle a stream with a mutex.                     *)
(***************************************************************************)
GuardedInit == LockedInit \/ OnceInit

GuardedNext == LockedNext \/ OnceNext

SpecGuarded == GuardedInit /\ [][GuardedNext]_vars

(***************************************************************************)
(* std::thread objects (concurrent_programming_examples.cpp).  A           *)
(* std::thread object owns a thread or owns none; it is joinable when it   *)
(* owns one.  join() on an object that is not joinable throws, and no      *)
(* example catches that; the destructor of a joinable object calls         *)
(* std::terminate.                                                         *)
(***************************************************************************)
Joinable(h) == handle[h] # "none"

\* join() returns, or throws: it blocks while the thread still runs.
JoinReturns(h) == ~Joinable(h) \/ pc[handle[h]] = "done"

JoinHandles(h) == IF Joinable(h) THEN [handle EXCEPT ![h] = "none"] ELSE handle

JoinJoins(h) == IF Joinable(h) THEN Append(joins, <<h, handle[h]>>) ELSE joins

JoinTerminated(h) ==
    IF Joinable(h) THEN terminated ELSE "join of a thread that is not joinable"

\* ~thread()
DestroyTerminated(h) == IF Joinable(h) THEN "joinable thread destroyed" ELSE terminated

\* A move that leaves the source owning the thread as well.
MoveThreadCopying(dst, src) ==
    [h \in DOMAIN handle \cup {dst} |-> IF h = dst THEN handle[src] ELSE handle[h]]

\* std::thread dst(std::move(src)): dst owns what src owned, src owns none.
MoveThread(dst, src) ==
    [h \in DOMAIN handle \cup {dst} |->
        IF h = dst THEN handle[src] ELSE IF h = src THEN "none" ELSE handle[h]]

(***************************************************************************)
(* Example 3 (82-117) and Example 4 (122-161): main and the thread of      *)
(* FileWriter write the same stream, with no lock.  The loops run          *)
(* WriterLoops times here.  In Example 3 the source throws when i == 50,   *)
(* inside a loop of 100: the model throws when i = throw_at, an iteration  *)
(* chosen at the start, or WriterLoops for a loop that ends first (the     *)
(* path the source's lines 109-116 are written for).                       *)
(***************************************************************************)
WriterLoops == 2

WriterProgs == {"Example3", "Example4"}

WriterThreads == {"main", "writer"}

\* fileStream << "From thread: " << i << endl;  logFile << "From main: " << i << endl;
WriterLine(t, v) ==
    <<IF t = "main" THEN "From main: " ELSE "From thread: ", ToString(v), "\n">>

\* i < 100 in main, i > -100 in FileWriter::operator()
WriterInLoop(t, v) == IF t = "main" THEN v < WriterLoops ELSE v > -WriterLoops

WriterInit ==
    /\ prog \in WriterProgs
    /\ pc = [t \in WriterThreads |-> "for"]
    /\ i = [t \in WriterThreads |-> 0]
    /\ part = [t \in WriterThreads |-> 0]
    /\ mutex = <<>>
    /\ owns = <<>>
    /\ log_file = NewStream
    /\ init_flag = "fresh"
    /\ handle = [h \in {"t1"} |-> "writer"]
    /\ joins = <<>>
    /\ terminated = "no"
    /\ throw_at \in (IF prog = "Example3" THEN 0..WriterLoops ELSE {0})
    /\ NoFutures
    /\ NoQueue
    /\ NoDetach

\* The loop test of main or of FileWriter::operator().
WriterFor(t) ==
    /\ prog \in WriterProgs
    /\ terminated = "no"
    /\ pc[t] = "for"
    /\ pc' = [pc EXCEPT ![t] =
                IF WriterInLoop(t, i[t]) THEN "insert"
                ELSE IF t = "writer" THEN "done"
                ELSE IF prog = "Example3" THEN "join" ELSE "close"]
    /\ UNCHANGED <<prog, queueVars, detachVars, i, part, log_file, lockVars, taskVars, futureVars>>

\* One operator<< of the line; after the last one the loop steps, or, in
\* main of Example 3, the test of i follows.
WriterInsert(t) ==
    /\ prog \in WriterProgs
    /\ terminated = "no"
    /\ pc[t] = "insert"
    /\ log_file' = Insert(log_file, WriterLine(t, i[t])[part[t] + 1], TRUE)
    /\ IF part[t] + 1 < Len(WriterLine(t, i[t]))
       THEN /\ part' = [part EXCEPT ![t] = @ + 1]
            /\ UNCHANGED <<i, pc>>
       ELSE /\ part' = [part EXCEPT ![t] = 0]
            /\ IF t = "main" /\ prog = "Example3"
               THEN /\ pc' = [pc EXCEPT ![t] = "if"]
                    /\ i' = i
               ELSE /\ pc' = [pc EXCEPT ![t] = "for"]
                    /\ i' = [i EXCEPT ![t] = IF t = "main" THEN @ + 1 ELSE @ - 1]
    /\ UNCHANGED <<prog, queueVars, detachVars, lockVars, taskVars, futureVars>>

\* if (i == 50) throw std::runtime_error(...): control goes to catch (...).
MainIf ==
    /\ prog = "Example3"
    /\ terminated = "no"
    /\ pc["main"] = "if"
    /\ IF i["main"] = throw_at
       THEN /\ pc' = [pc EXCEPT !["main"] = "catch"]
            /\ i' = i
       ELSE /\ pc' = [pc EXCEPT !["main"] = "for"]
            /\ i' = [i EXCEPT !["main"] = @ + 1]
    /\ UNCHANGED <<prog, queueVars, detachVars, part, log_file, lockVars, taskVars, futureVars>>

\* A handler that rethrows without joining.
CatchWithoutJoin ==
    /\ prog = "Example3"
    /\ terminated = "no"
    /\ pc["main"] = "catch"
    /\ pc' = [pc EXCEPT !["main"] = "rethrow"]
    /\ UNCHANGED <<prog, queueVars, detachVars, i, part, log_file, lockVars, taskVars, futureVars>>

\* catch (...) { t1.join();
CatchJoin ==
    /\ prog = "Example3"
    /\ terminated = "no"
    /\ pc["main"] = "catch"
    /\ JoinReturns("t1")
    /\ handle' = JoinHandles("t1")
    /\ joins' = JoinJoins("t1")
    /\ terminated' = JoinTerminated("t1")
    /\ pc' = [pc EXCEPT !["main"] = "rethrow"]
    /\ UNCHANGED <<prog, queueVars, detachVars, i, part, log_file, lockVars, throw_at, futureVars>>

\* throw; } : no handler is left, so std::terminate is called; whether the
\* stack is unwound first (~thread of t1 runs) is up to the implementation.
Rethrow ==
    /\ prog = "Example3"
    /\ terminated = "no"
    /\ pc["main"] = "rethrow"
    /\ \E unwound \in BOOLEAN :
          terminated' = IF unwound /\ Joinable("t1")
                        THEN DestroyTerminated("t1")
                        ELSE "uncaught exception"
    /\ pc' = [pc EXCEPT !["main"] = "terminate"]
    /\ UNCHANGED <<prog, queueVars, detachVars, i, part, log_file, lockVars, handle, joins, throw_at, futureVars>>

\* t1.join() after the loop (line 111).
NormalJoin ==
    /\ prog = "Example3"
    /\ terminated = "no"
    /\ pc["main"] = "join"
    /\ JoinReturns("t1")
    /\ handle' = JoinHandles("t1")
    /\ joins' = JoinJoins("t1")
    /\ terminated' = JoinTerminated("t1")
    /\ pc' = [pc EXCEPT !["main"] = "close"]
    /\ UNCHANGED <<prog, queueVars, detachVars, i, part, log_file, lockVars, throw_at, futureVars>>

\* logFile.close(); return 0 follows, and the locals are destroyed in the
\* reverse order of their construction.
MainClose ==
    /\ prog \in WriterProgs
    /\ terminated = "no"
    /\ pc["main"] = "close"
    /\ log_file' = [log_file EXCEPT !.open = FALSE]
    /\ pc' = [pc EXCEPT !["main"] = IF prog = "Example3" THEN "~t1" ELSE "~ThreadGuard"]
    /\ UNCHANGED <<prog, queueVars, detachVars, i, part, lockVars, taskVars, futureVars>>

(***************************************************************************)
(* Example 8 (255-273) and Example 9 (279-304): the thread of              *)
(* printMessage is handed from t1 to t2, or through the constructor's      *)
(* parameter t_ to the member t of a ThreadGuard.  Its one line goes to    *)
(* std::cout, which log_file stands for here.                              *)
(***************************************************************************)
MoveProgs == {"Example8", "Example9"}

MoveThreads == {"main", "printer"}

\* cout << "Thread says: Hello, World!" << endl;
PrinterLine == <<"Thread says: Hello, World!", "\n">>

MoveInit ==
    /\ prog \in MoveProgs
    /\ pc = [t \in MoveThreads |-> IF t = "main" THEN "move" ELSE "insert"]
    /\ i = [t \in MoveThreads |-> 0]
    /\ part = [t \in MoveThreads |-> 0]
    /\ mutex = <<>>
    /\ owns = <<>>
    /\ log_file = NewStream
    /\ init_flag = "fresh"
    /\ handle = [h \in {"t1"} |-> "printer"]
    /\ joins = <<>>
    /\ terminated = "no"
    /\ throw_at = 0
    /\ NoFutures
    /\ NoQueue
    /\ NoDetach

\* One operator<< of printMessage, which returns after the last one.
PrinterInsert ==
    /\ prog \in MoveProgs
    /\ terminated = "no"
    /\ pc["printer"] = "insert"
    /\ log_file' = Insert(log_file, PrinterLine[part["printer"] + 1], TRUE)
    /\ IF part["printer"] + 1 < Len(PrinterLine)
       THEN /\ part' = [part EXCEPT !["printer"] = @ + 1]
            /\ pc' = pc
       ELSE /\ part' = [part EXCEPT !["printer"] = 0]
            /\ pc' = [pc EXCEPT !["printer"] = "done"]
    /\ UNCHANGED <<prog, queueVars, detachVars, i, lockVars, taskVars, futureVars>>

\* std::thread t2 = std::move(t1);  or, in ThreadGuard guard(std::move(t1)),
\* the construction of the parameter t_ from t1.
MoveFromT1 ==
    /\ prog \in MoveProgs
    /\ terminated = "no"
    /\ pc["main"] = "move"
    /\ handle' = MoveThread(IF prog = "Example8" THEN "t2" ELSE "t_", "t1")
    /\ pc' = [pc EXCEPT !["main"] = IF prog = "Example8" THEN "join" ELSE "move_member"]
    /\ UNCHANGED <<prog, queueVars, detachVars, i, part, log_file, lockVars, joins, terminated, throw_at, futureVars>>

\* ThreadGuard(std::thread t_) : t(std::move(t_)) {}
MoveToMember ==
    /\ prog = "Example9"
    /\ terminated = "no"
    /\ pc["main"] = "move_member"
    /\ handle' = MoveThread("guard.t", "t_")
    /\ pc' = [pc EXCEPT !["main"] = "~t_"]
    /\ UNCHANGED <<prog, queueVars, detachVars, i, part, log_file, lockVars, joins, terminated, throw_at, futureVars>>

\* t2.join(); return 0 follows.
JoinT2 ==
    /\ prog = "Example8"
    /\ terminated = "no"
    /\ pc["main"] = "join"
    /\ JoinReturns("t2")
    /\ handle' = JoinHandles("t2")
    /\ joins' = JoinJoins("t2")
    /\ terminated' = JoinTerminated("t2")
    /\ pc' = [pc EXCEPT !["main"] = "~t2"]
    /\ UNCHANGED <<prog, queueVars, detachVars, i, part, log_file, lockVars, throw_at, futureVars>>

(***************************************************************************)
(* ThreadGuard, holding a reference to t1 (122-135, Example 4) or owning   *)
(* the thread object in its member t (279-292, Example 9), and the         *)
(* destructors that run when main returns.                                 *)
(***************************************************************************)
GuardProgs == {"Example4", "Example9"}

GuardedHandle == IF prog = "Example4" THEN "t1" ELSE "guard.t"

\* The thread the guard is to wait for.
GuardedThread == IF prog = "Example4" THEN "writer" ELSE "printer"

\* A destructor that lets the thread go instead of waiting for it.
ThreadGuardDetaching ==
    /\ prog \in GuardProgs
    /\ terminated = "no"
    /\ pc["main"] = "~ThreadGuard"
    /\ handle' = [handle EXCEPT ![GuardedHandle] = "none"]
    /\ pc' = [pc EXCEPT !["main"] = "~" \o GuardedHandle]
    /\ UNCHANGED <<prog, queueVars, detachVars, i, part, log_file, lockVars, joins, terminated, throw_at, futureVars>>

\* ~ThreadGuard() { if (t.joinable()) { t.join(); } }
ThreadGuardDtor ==
    /\ prog \in GuardProgs
    /\ terminated = "no"
    /\ pc["main"] = "~ThreadGuard"
    /\ IF Joinable(GuardedHandle)
       THEN /\ JoinReturns(GuardedHandle)
            /\ handle' = JoinHandles(GuardedHandle)
            /\ joins' = JoinJoins(GuardedHandle)
       ELSE UNCHANGED <<handle, joins>>
    /\ pc' = [pc EXCEPT !["main"] = "~" \o GuardedHandle]
    /\ UNCHANGED <<prog, queueVars, detachVars, i, part, log_file, lockVars, terminated, throw_at, futureVars>>

\* What main does after the std::thread object h is destroyed.
AfterDestroy(h) ==
    IF prog = "Example8" /\ h = "t2" THEN "~t1"
    ELSE IF prog = "Example9" /\ h = "t_" THEN "~ThreadGuard"
    ELSE IF prog = "Example9" /\ h = "guard.t" THEN "~t1"
    ELSE "done"

\* ~thread() of the std::thread object h.
DestroyThread(h) ==
    /\ prog \in WriterProgs \cup MoveProgs
    /\ terminated = "no"
    /\ pc["main"] = "~" \o h
    /\ terminated' = DestroyTerminated(h)
    /\ pc' = [pc EXCEPT !["main"] = IF Joinable(h) THEN "terminate" ELSE AfterDestroy(h)]
    /\ UNCHANGED <<prog, queueVars, detachVars, i, part, log_file, lockVars, handle, joins, throw_at, futureVars>>

TaskInit == WriterInit \/ MoveInit

TaskNext ==
    \/ \E t \in WriterThreads : WriterFor(t)
    \/ \E t \in WriterThreads : WriterInsert(t)
    \/ MainIf
    \/ CatchJoin
    \/ Rethrow
    \/ NormalJoin
    \/ MainClose
    \/ PrinterInsert
    \/ MoveFromT1
    \/ MoveToMember
    \/ JoinT2
    \/ ThreadGuardDtor
    \/ \E h \in DOMAIN handle : DestroyThread(h)

SpecTasks == TaskInit /\ [][TaskNext]_vars

(***************************************************************************)
(* Futures (thread_synchronization_demo.cpp 68-121 and 140-147).  The      *)
(* sections of main use objects of their own and run one after the         *)
(* other; each is a program here, started where its section starts.  A     *)
(* shared state holds the value, <<>> until it is set; valid says that     *)
(* the future still refers to it (get() of a std::future gives that up,    *)
(* get() of a std::shared_future does not), broken that the promise was    *)
(* destroyed before a value was set.                                       *)
(***************************************************************************)
FutureProgs == {"async", "promise", "shared_future", "packaged_task", "wait_for"}

AsyncArgument == 5

PromiseValue == 6

SharedValue == 7

TaskArgument == 4

\* int factorial(int n): result = 1; for (i = n; i > 1; --i) result *= i;
RECURSIVE FactorialLoop(_, _)
FactorialLoop(result, k) == IF k > 1 THEN FactorialLoop(result * k, k - 1) ELSE result

factorial(n) == FactorialLoop(1, n)

NewCell == [value |-> <<>>, valid |-> TRUE, broken |-> FALSE]

FutureThreads ==
    CASE prog = "async" -> {"main", "asyncThread"}
      [] prog = "promise" -> {"main", "promiseThread"}
      [] prog = "shared_future" -> {"main", "sharedThread1", "sharedThread2"}
      [] prog = "packaged_task" -> {"main", "taskThread"}
      [] OTHER -> {"main"}

\* The threads that call get(), and the text each prints before the value.
Readers ==
    CASE prog = "shared_future" -> {"sharedThread1", "sharedThread2"}
      [] prog = "wait_for" -> {}
      [] OTHER -> {"main"}

ResultLabel(t) ==
    CASE prog = "async" -> "Factorial result: "
      [] prog = "promise" -> "Promise result: "
      [] prog = "packaged_task" -> "Packaged task result: "
      [] t = "sharedThread1" -> "Shared future result in thread 1: "
      [] OTHER -> "Shared future result in thread 2: "

\* The value the section's producer sets.
SetArgument ==
    CASE prog = "async" -> factorial(AsyncArgument)
      [] prog = "promise" -> PromiseValue
      [] prog = "shared_future" -> SharedValue
      [] OTHER -> factorial(TaskArgument)

FirstStep(t) ==
    CASE t \in Readers -> "label"
      [] t = "promiseThread" -> "sleep"
      [] prog = "wait_for" -> "wait_for"
      [] OTHER -> "set_value"

FutureInit ==
    /\ prog \in FutureProgs
    /\ pc = [t \in FutureThreads |-> FirstStep(t)]
    /\ i = [t \in FutureThreads |-> 0]
    /\ part = [t \in FutureThreads |-> 0]
    /\ mutex = <<>>
    /\ owns = <<>>
    /\ log_file = NewStream
    /\ init_flag = "fresh"
    /\ NoTasks
    /\ NoQueue
    /\ NoDetach
    /\ cell = NewCell
    /\ got = [t \in FutureThreads |-> <<>>]
    /\ status = "none"

\* set_value(v), or the return of the function std::async or the
\* packaged_task runs: the shared state gets its value.
SetValue(c, v) == [c EXCEPT !.value = <<v>>]

\* get() blocks until the shared state is ready.
Ready(c) == c.value # <<>>

GetValue(c) == c.value

\* The shared state after get(): a std::future is no longer valid.
AfterGet(c) == IF prog = "shared_future" THEN c ELSE [c EXCEPT !.valid = FALSE]

\* std::cout << "... result: "
FutureLabel(t) ==
    /\ prog \in FutureProgs
    /\ pc[t] = "label"
    /\ log_file' = Insert(log_file, ResultLabel(t), TRUE)
    /\ pc' = [pc EXCEPT ![t] = "get"]
    /\ UNCHANGED <<prog, queueVars, detachVars, i, part, lockVars, taskVars, futureVars>>

\* A get() that does not wait, and reads a value that is not there yet.
FutureGetWithoutWaiting(t) ==
    /\ prog \in FutureProgs
    /\ pc[t] = "get"
    /\ got' = [got EXCEPT ![t] = IF Ready(cell) THEN GetValue(cell) ELSE <<0>>]
    /\ cell' = AfterGet(cell)
    /\ pc' = [pc EXCEPT ![t] = "value"]
    /\ UNCHANGED <<prog, queueVars, detachVars, i, part, log_file, lockVars, taskVars, status>>

\* future.get()
FutureGet(t) ==
    /\ prog \in FutureProgs
    /\ pc[t] = "get"
    /\ cell.valid
    /\ Ready(cell)
    /\ got' = [got EXCEPT ![t] = GetValue(cell)]
    /\ cell' = AfterGet(cell)
    /\ pc' = [pc EXCEPT ![t] = "value"]
    /\ UNCHANGED <<prog, queueVars, detachVars, i, part, log_file, lockVars, taskVars, status>>

\* << (the value) << std::endl; the thread's function returns, or main goes
\* on to join the section's thread.
FutureValue(t) ==
    /\ prog \in FutureProgs
    /\ pc[t] = "value"
    /\ log_file' = Insert(log_file, <<ToString(got[t][1]), "\n">>[part[t] + 1], TRUE)
    /\ IF part[t] = 0
       THEN /\ part' = [part EXCEPT ![t] = 1]
            /\ pc' = pc
       ELSE /\ part' = [part EXCEPT ![t] = 0]
            /\ pc' = [pc EXCEPT ![t] =
                        IF t = "main" /\ prog \in {"promise", "packaged_task"}
                        THEN "join" ELSE "done"]
    /\ UNCHANGED <<prog, queueVars, detachVars, i, lockVars, taskVars, futureVars>>

\* std::this_thread::sleep_for(std::chrono::milliseconds(100))
PromiseSleep ==
    /\ prog = "promise"
    /\ pc["promiseThread"] = "sleep"
    /\ pc' = [pc EXCEPT !["promiseThread"] = "set_value"]
    /\ UNCHANGED <<prog, queueVars, detachVars, i, part, log_file, lockVars, taskVars, futureVars>>

\* promise.set_value(6), sharedPromise.set_value(7), or the end of the
\* function run by std::async or by the packaged_task.
FutureSet(t) ==
    /\ prog \in FutureProgs
    /\ pc[t] = "set_value"
    /\ cell' = SetValue(cell, SetArgument)
    /\ pc' = [pc EXCEPT ![t] = IF t = "main" THEN "join" ELSE "done"]
    /\ UNCHANGED <<prog, queueVars, detachVars, i, part, log_file, lockVars, taskVars, got, status>>

\* The joins of main: each returns once its thread has finished.
FutureJoin ==
    /\ prog \in FutureProgs
    /\ pc["main"] = "join"
    /\ \A t \in FutureThreads \ {"main"} : pc[t] = "done"
    /\ pc' = [pc EXCEPT !["main"] = "done"]
    /\ UNCHANGED <<prog, queueVars, detachVars, i, part, log_file, lockVars, taskVars, futureVars>>

\* A wait that takes the result away from a later get().
WaitResultConsuming(c) == [c EXCEPT !.valid = FALSE]

\* The shared state after wait_for: as before.
WaitResult(c) == c

\* timeFuture.wait_for(std::chrono::milliseconds(300))
WaitFor ==
    /\ prog = "wait_for"
    /\ pc["main"] = "wait_for"
    /\ status' = IF Ready(cell) THEN "ready" ELSE "timeout"
    /\ cell' = WaitResult(cell)
    /\ pc' = [pc EXCEPT !["main"] = "return"]
    /\ UNCHANGED <<prog, queueVars, detachVars, i, part, log_file, lockVars, taskVars, got>>

\* return 0: timeFuture and timePromise are destroyed; a promise destroyed
\* before a value was set leaves a broken promise in the shared state.
WaitReturn ==
    /\ prog = "wait_for"
    /\ pc["main"] = "return"
    /\ cell' = [cell EXCEPT !.valid = FALSE, !.broken = ~Ready(cell)]
    /\ pc' = [pc EXCEPT !["main"] = "done"]
    /\ UNCHANGED <<prog, queueVars, detachVars, i, part, log_file, lockVars, taskVars, got, status>>

FutureNext ==
    \/ \E t \in FutureThreads : FutureLabel(t)
    \/ \E t \in FutureThreads : FutureGet(t)
    \/ \E t \in FutureThreads : FutureValue(t)
    \/ PromiseSleep
    \/ \E t \in FutureThreads : FutureSet(t)
    \/ FutureJoin
    \/ WaitFor
    \/ WaitReturn

SpecFutures == FutureInit /\ [][FutureNext]_vars

(***************************************************************************)
(* The producer and the consumer of thread_synchronization_demo.cpp        *)
(* (11-66).  dataQueue is written front first; i is count in the producer  *)
(* and data in the consumer.  A thread in dataCondVar.wait has released    *)
(* dataMutex and is in waiting until notify_one takes it out, or until it  *)
(* wakes by itself (a spurious wakeup); it then locks dataMutex again and  *)
(* tests the predicate again.                                              *)
(***************************************************************************)
ProducerCount == 10

Sentinel == 1

QueueThreads == {"main", "producer", "consumer"}

\* while (count > 0)
ProducerInLoop(count) == count > 0

\* A consumer that stops one value early.
ConsumerInLoopEarly(data) == data # Sentinel + 1

\* while (data != 1)
ConsumerInLoop(data) == data # Sentinel

\* A push at the wrong end of the deque.
PushBack(q, v) == Append(q, v)

\* dataQueue.push_front(count)
PushFront(q, v) == <<v>> \o q

\* []() { return !dataQueue.empty(); }
NotEmpty(q) == q # <<>>

\* dataQueue.back() : undefined on an empty deque, any int may come back.
Back(q) == IF q = <<>> THEN 0..ProducerCount ELSE {q[Len(q)]}

\* A pop that leaves the element in the deque.
PopBackKeeping(q) == q

\* dataQueue.pop_back()
PopBack(q) == SubSeq(q, 1, Len(q) - 1)

\* A notify_one that wakes nobody.
NotifyNone(w, t) == w

\* notify_one takes the waiting thread t out of the waiting threads.
NotifyOne(w, t) == w \ {t}

QueueInit ==
    /\ prog = "queue"
    /\ pc = [t \in QueueThreads |-> IF t = "main" THEN "join_producer" ELSE "while"]
    /\ i = [t \in QueueThreads |-> IF t = "producer" THEN ProducerCount ELSE 0]
    /\ part = [t \in QueueThreads |-> 0]
    /\ mutex = [m \in {"dataMutex"} |-> {}]
    /\ owns = [t \in QueueThreads |-> FALSE]
    /\ log_file = NewStream
    /\ init_flag = "fresh"
    /\ handle = [h \in {"producerThread", "consumerThread"} |->
                    IF h = "producerThread" THEN "producer" ELSE "consumer"]
    /\ joins = <<>>
    /\ terminated = "no"
    /\ throw_at = 0
    /\ NoFutures
    /\ NoQueue
    /\ NoDetach

\* The loop test of producer() or of consumer().
QueueWhile(t) ==
    /\ prog = "queue"
    /\ terminated = "no"
    /\ t \in {"producer", "consumer"}
    /\ pc[t] = "while"
    /\ pc' = [pc EXCEPT ![t] =
                IF t = "producer"
                THEN (IF ProducerInLoop(i[t]) THEN "lock" ELSE "done")
                ELSE (IF ConsumerInLoop(i[t]) THEN "lock" ELSE "done")]
    /\ UNCHANGED <<prog, queueVars, detachVars, i, part, log_file, lockVars, taskVars, futureVars>>

\* std::unique_lock<std::mutex> lock(dataMutex), and the lock taken again
\* when a wait ends.
QueueLock(t) ==
    /\ prog = "queue"
    /\ terminated = "no"
    /\ pc[t] \in {"lock", "relock"}
    /\ Free("dataMutex")
    /\ mutex' = Lock("dataMutex", t)
    /\ owns' = [owns EXCEPT ![t] = TRUE]
    /\ pc' = [pc EXCEPT ![t] = IF t = "producer" THEN "push_front" ELSE "wait"]
    /\ UNCHANGED <<prog, queueVars, detachVars, i, part, log_file, init_flag, taskVars, futureVars>>

\* dataQueue.push_front(count)
ProducerPush ==
    /\ prog = "queue"
    /\ terminated = "no"
    /\ pc["producer"] = "push_front"
    /\ dataQueue' = PushFront(dataQueue, i["producer"])
    /\ pc' = [pc EXCEPT !["producer"] = "unlock"]
    /\ UNCHANGED <<prog, waiting, received, detachVars, i, part, log_file, lockVars, taskVars, futureVars>>

\* The end of the block of the lock, in the producer or in the consumer:
\* ~unique_lock unlocks the mutex it owns.
QueueUnlock(t) ==
    /\ prog = "queue"
    /\ terminated = "no"
    /\ pc[t] = "unlock"
    /\ mutex' = IF owns[t] THEN Unlock("dataMutex", t) ELSE mutex
    /\ owns' = [owns EXCEPT ![t] = FALSE]
    /\ pc' = [pc EXCEPT ![t] = IF t = "producer" THEN "notify_one" ELSE "while"]
    /\ UNCHANGED <<prog, queueVars, detachVars, i, part, log_file, init_flag, taskVars, futureVars>>

\* dataCondVar.notify_one(): one of the waiting threads, if there is one.
ProducerNotify ==
    /\ prog = "queue"
    /\ terminated = "no"
    /\ pc["producer"] = "notify_one"
    /\ IF waiting = {}
       THEN waiting' = waiting
       ELSE \E t \in waiting : waiting' = NotifyOne(waiting, t)
    /\ pc' = [pc EXCEPT !["producer"] = "sleep_for"]
    /\ UNCHANGED <<prog, dataQueue, received, detachVars, i, part, log_file, lockVars, taskVars, futureVars>>

\* std::this_thread::sleep_for(std::chrono::seconds(1))
ProducerSleep ==
    /\ prog = "queue"
    /\ terminated = "no"
    /\ pc["producer"] = "sleep_for"
    /\ pc' = [pc EXCEPT !["producer"] = "decrement"]
    /\ UNCHANGED <<prog, queueVars, detachVars, i, part, log_file, lockVars, taskVars, futureVars>>

\* count--
ProducerDecrement ==
    /\ prog = "queue"
    /\ terminated = "no"
    /\ pc["producer"] = "decrement"
    /\ i' = [i EXCEPT !["producer"] = @ - 1]
    /\ pc' = [pc EXCEPT !["producer"] = "while"]
    /\ UNCHANGED <<prog, queueVars, detachVars, part, log_file, lockVars, taskVars, futureVars>>

\* dataCondVar.wait(lock, pred) is while (!pred()) wait(lock): the test of
\* the predicate with the mutex held; if it fails the thread unlocks the
\* mutex and starts to wait, in one step.
ConsumerWait ==
    /\ prog = "queue"
    /\ terminated = "no"
    /\ pc["consumer"] = "wait"
    /\ IF NotEmpty(dataQueue)
       THEN /\ pc' = [pc EXCEPT !["consumer"] = "back"]
            /\ UNCHANGED <<mutex, owns, waiting>>
       ELSE /\ pc' = [pc EXCEPT !["consumer"] = "blocked"]
            /\ mutex' = Unlock("dataMutex", "consumer")
            /\ owns' = [owns EXCEPT !["consumer"] = FALSE]
            /\ waiting' = waiting \cup {"consumer"}
    /\ UNCHANGED <<prog, dataQueue, received, detachVars, i, part, log_file, init_flag, taskVars, futureVars>>

\* The wait ends because notify_one chose this thread.
ConsumerNotified ==
    /\ prog = "queue"
    /\ terminated = "no"
    /\ pc["consumer"] = "blocked"
    /\ "consumer" \notin waiting
    /\ pc' = [pc EXCEPT !["consumer"] = "relock"]
    /\ UNCHANGED <<prog, queueVars, detachVars, i, part, log_file, lockVars, taskVars, futureVars>>

\* The wait ends with no notification: a spurious wakeup.
ConsumerSpurious ==
    /\ prog = "queue"
    /\ terminated = "no"
    /\ pc["consumer"] = "blocked"
    /\ "consumer" \in waiting
    /\ waiting' = waiting \ {"consumer"}
    /\ pc' = [pc EXCEPT !["consumer"] = "relock"]
    /\ UNCHANGED <<prog, dataQueue, received, detachVars, i, part, log_file, lockVars, taskVars, futureVars>>

\* data = dataQueue.back()
ConsumerBack ==
    /\ prog = "queue"
    /\ terminated = "no"
    /\ pc["consumer"] = "back"
    /\ \E v \in Back(dataQueue) : i' = [i EXCEPT !["consumer"] = v]
    /\ pc' = [pc EXCEPT !["consumer"] = "pop_back"]
    /\ UNCHANGED <<prog, queueVars, detachVars, part, log_file, lockVars, taskVars, futureVars>>

\* dataQueue.pop_back() : undefined on an empty deque; the program goes on
\* with the deque as it is, or ends.
ConsumerPop ==
    /\ prog = "queue"
    /\ pc["consumer"] = "pop_back"
    /\ terminated = "no"
    /\ IF NotEmpty(dataQueue)
       THEN /\ dataQueue' = PopBack(dataQueue)
            /\ terminated' = terminated
       ELSE /\ dataQueue' = dataQueue
            /\ terminated' \in {"no", "pop_back on an empty deque"}
    /\ pc' = [pc EXCEPT !["consumer"] = "print"]
    /\ UNCHANGED <<prog, waiting, received, detachVars, i, part, log_file, lockVars, handle, joins, throw_at, futureVars>>

\* std::cout << "Consumer received data: " << data << std::endl;
ConsumerPrint ==
    /\ prog = "queue"
    /\ terminated = "no"
    /\ pc["consumer"] = "print"
    /\ received' = Append(received, i["consumer"])
    /\ pc' = [pc EXCEPT !["consumer"] = "unlock"]
    /\ UNCHANGED <<prog, dataQueue, waiting, detachVars, i, part, log_file, lockVars, taskVars, futureVars>>

\* producerThread.join(); consumerThread.join();
QueueJoin(h) ==
    /\ prog = "queue"
    /\ terminated = "no"
    /\ pc["main"] = (IF h = "producerThread" THEN "join_producer" ELSE "join_consumer")
    /\ JoinReturns(h)
    /\ handle' = JoinHandles(h)
    /\ joins' = JoinJoins(h)
    /\ terminated' = JoinTerminated(h)
    /\ pc' = [pc EXCEPT !["main"] = IF h = "producerThread" THEN "join_consumer" ELSE "done"]
    /\ UNCHANGED <<prog, queueVars, detachVars, i, part, log_file, lockVars, throw_at, futureVars>>

\* The steps of a thread that the scheduler owes it: all but the spurious
\* wakeup.
ProducerStep ==
    \/ QueueWhile("producer")
    \/ QueueLock("producer")
    \/ ProducerPush
    \/ QueueUnlock("producer")
    \/ ProducerNotify
    \/ ProducerSleep
    \/ ProducerDecrement

ConsumerStep ==
    \/ QueueWhile("consumer")
    \/ QueueLock("consumer")
    \/ ConsumerWait
    \/ ConsumerNotified
    \/ ConsumerBack
    \/ ConsumerPop
    \/ ConsumerPrint
    \/ QueueUnlock("consumer")

QueueMainStep == \E h \in DOMAIN handle : QueueJoin(h)

QueueNext ==
    \/ \E t \in {"producer", "consumer"} : QueueWhile(t)
    \/ \E t \in {"producer", "consumer"} : QueueLock(t)
    \/ ProducerPush
    \/ \E t \in {"producer", "consumer"} : QueueUnlock(t)
    \/ ProducerNotify
    \/ ProducerSleep
    \/ ProducerDecrement
    \/ ConsumerWait
    \/ ConsumerNotified
    \/ ConsumerSpurious
    \/ ConsumerBack
    \/ ConsumerPop
    \/ ConsumerPrint
    \/ \E h \in {"producerThread", "consumerThread"} : QueueJoin(h)

SpecQueue == QueueInit /\ [][QueueNext]_vars

\* Every thread that can go on does go on, and a thread that finds
\* dataMutex free again and again does lock it: the other thread cannot
\* take the mutex in front of it for ever.
FairSpecQueue ==
    /\ SpecQueue
    /\ WF_vars(ProducerStep)
    /\ WF_vars(ConsumerStep)
    /\ WF_vars(QueueMainStep)
    /\ SF_vars(QueueLock("producer"))
    /\ SF_vars(QueueLock("consumer"))

(***************************************************************************)
(* timeCondVar.wait_for(timeLock, 200ms) in main                           *)
(* (thread_synchronization_demo.cpp 131-138): a timed wait with no         *)
(* predicate.  No thread ever notifies timeCondVar, so the wait ends when  *)
(* the 200 ms have passed (std::cv_status::timeout) or by a spurious       *)
(* wakeup before that (std::cv_status::no_timeout).                        *)
(***************************************************************************)
TimedInit ==
    /\ prog = "timed_wait"
    /\ pc = [t \in {"main"} |-> "lock"]
    /\ i = [t \in {"main"} |-> 0]
    /\ part = [t \in {"main"} |-> 0]
    /\ mutex = [m \in {"timeMutex"} |-> {}]
    /\ owns = [t \in {"main"} |-> FALSE]
    /\ log_file = NewStream
    /\ init_flag = "fresh"
    /\ NoTasks
    /\ NoFutures
    /\ NoQueue
    /\ NoDetach

\* std::unique_lock<std::mutex> timeLock(timeMutex), and the lock taken
\* again when the wait ends.
TimedLock ==
    /\ prog = "timed_wait"
    /\ pc["main"] \in {"lock", "relock"}
    /\ Free("timeMutex")
    /\ mutex' = Lock("timeMutex", "main")
    /\ owns' = [owns EXCEPT !["main"] = TRUE]
    /\ pc' = [pc EXCEPT !["main"] = IF pc["main"] = "lock" THEN "wait_for" ELSE "return"]
    /\ UNCHANGED <<prog, queueVars, detachVars, i, part, log_file, init_flag, taskVars, futureVars>>

\* wait_for unlocks the mutex and blocks, with no test before it.
TimedWait ==
    /\ prog = "timed_wait"
    /\ pc["main"] = "wait_for"
    /\ mutex' = Unlock("timeMutex", "main")
    /\ owns' = [owns EXCEPT !["main"] = FALSE]
    /\ waiting' = waiting \cup {"main"}
    /\ pc' = [pc EXCEPT !["main"] = "blocked"]
    /\ UNCHANGED <<prog, dataQueue, received, detachVars, i, part, log_file, init_flag, taskVars, futureVars>>

\* The 200 ms have passed.
TimedTimeout ==
    /\ prog = "timed_wait"
    /\ pc["main"] = "blocked"
    /\ waiting' = waiting \ {"main"}
    /\ status' = "timeout"
    /\ pc' = [pc EXCEPT !["main"] = "relock"]
    /\ UNCHANGED <<prog, dataQueue, received, detachVars, i, part, log_file, lockVars, taskVars, cell, got>>

\* A spurious wakeup before the 200 ms have passed.
TimedSpurious ==
    /\ prog = "timed_wait"
    /\ pc["main"] = "blocked"
    /\ waiting' = waiting \ {"main"}
    /\ status' = "no_timeout"
    /\ pc' = [pc EXCEPT !["main"] = "relock"]
    /\ UNCHANGED <<prog, dataQueue, received, detachVars, i, part, log_file, lockVars, taskVars, cell, got>>

\* The end of main: ~unique_lock unlocks timeMutex.
TimedReturn ==
    /\ prog = "timed_wait"
    /\ pc["main"] = "return"
    /\ mutex' = IF owns["main"] THEN Unlock("timeMutex", "main") ELSE mutex
    /\ owns' = [owns EXCEPT !["main"] = FALSE]
    /\ pc' = [pc EXCEPT !["main"] = "done"]
    /\ UNCHANGED <<prog, queueVars, detachVars, i, part, log_file, init_flag, taskVars, futureVars>>

TimedNext ==
    \/ TimedLock
    \/ TimedWait
    \/ TimedTimeout
    \/ TimedSpurious
    \/ TimedReturn

(***************************************************************************)
(* The two programs that wait on a condition variable.                     *)
(***************************************************************************)
WaitsInit == QueueInit \/ TimedInit

WaitsNext == QueueNext \/ TimedNext

SpecWaits == WaitsInit /\ [][WaitsNext]_vars

(***************************************************************************)
(* Example 2 (concurrent_programming_examples.cpp 36-77): main and the     *)
(* FileWriter thread write lines to the same stream, with no lock.  The    *)
(* loops run WriterLoops times, as in Examples 3 and 4.                    *)
(***************************************************************************)
RaceInit ==
    /\ prog = "Example2"
    /\ pc = [t \in WriterThreads |-> "for"]
    /\ i = [t \in WriterThreads |-> 0]
    /\ part = [t \in WriterThreads |-> 0]
    /\ mutex = <<>>
    /\ owns = <<>>
    /\ log_file = NewStream
    /\ init_flag = "fresh"
    /\ handle = [h \in {"t1"} |-> "writer"]
    /\ joins = <<>>
    /\ terminated = "no"
    /\ throw_at = 0
    /\ NoFutures
    /\ NoQueue
    /\ NoDetach

\* The loop test of main or of FileWriter::operator().
RaceFor(t) ==
    /\ prog = "Example2"
    /\ pc[t] = "for"
    /\ pc' = [pc EXCEPT ![t] =
                IF WriterInLoop(t, i[t]) THEN "insert"
                ELSE IF t = "writer" THEN "done" ELSE "join"]
    /\ UNCHANGED <<prog, queueVars, detachVars, i, part, log_file, lockVars, taskVars, futureVars>>

\* One operator<< of the line, made only while the other thread is not in
\* the middle of a line of its own.
RaceInsertExclusive(t) ==
    /\ prog = "Example2"
    /\ pc[t] = "insert"
    /\ \A u \in WriterThreads \ {t} : part[u] = 0
    /\ log_file' = Insert(log_file, WriterLine(t, i[t])[part[t] + 1], TRUE)
    /\ IF part[t] + 1 < Len(WriterLine(t, i[t]))
       THEN /\ part' = [part EXCEPT ![t] = @ + 1]
            /\ UNCHANGED <<i, pc>>
       ELSE /\ part' = [part EXCEPT ![t] = 0]
            /\ pc' = [pc EXCEPT ![t] = "for"]
            /\ i' = [i EXCEPT ![t] = IF t = "main" THEN @ + 1 ELSE @ - 1]
    /\ UNCHANGED <<prog, queueVars, detachVars, lockVars, taskVars, futureVars>>

\* One operator<< of fileStream << "From thread: " << i << endl, or of
\* logFile << "From main: " << i << endl; after the last one the loop steps.
RaceInsert(t) ==
    /\ prog = "Example2"
    /\ pc[t] = "insert"
    /\ log_file' = Insert(log_file, WriterLine(t, i[t])[part[t] + 1], TRUE)
    /\ IF part[t] + 1 < Len(WriterLine(t, i[t]))
       THEN /\ part' = [part EXCEPT ![t] = @ + 1]
            /\ UNCHANGED <<i, pc>>
       ELSE /\ part' = [part EXCEPT ![t] = 0]
            /\ pc' = [pc EXCEPT ![t] = "for"]
            /\ i' = [i EXCEPT ![t] = IF t = "main" THEN @ + 1 ELSE @ - 1]
    /\ UNCHANGED <<prog, queueVars, detachVars, lockVars, taskVars, futureVars>>

\* t1.join()
RaceJoin ==
    /\ prog = "Example2"
    /\ pc["main"] = "join"
    /\ JoinReturns("t1")
    /\ handle' = JoinHandles("t1")
    /\ joins' = JoinJoins("t1")
    /\ terminated' = JoinTerminated("t1")
    /\ pc' = [pc EXCEPT !["main"] = "close"]
    /\ UNCHANGED <<prog, queueVars, detachVars, i, part, log_file, lockVars, throw_at, futureVars>>

\* logFile.close(); return 0;
RaceClose ==
    /\ prog = "Example2"
    /\ pc["main"] = "close"
    /\ log_file' = [log_file EXCEPT !.open = FALSE]
    /\ pc' = [pc EXCEPT !["main"] = "done"]
    /\ UNCHANGED <<prog, queueVars, detachVars, i, part, lockVars, taskVars, futureVars>>

RaceNext ==
    \/ \E t \in WriterThreads : RaceFor(t)
    \/ \E t \in WriterThreads : RaceInsert(t)
    \/ RaceJoin
    \/ RaceClose

SpecRace == RaceInit /\ [][RaceNext]_vars

(***************************************************************************)
(* Example 6 (concurrent_programming_examples.cpp 193-221): the thread of  *)
(* MessageModifier::modifyMessage writes and reads main's local string     *)
(* through a pointer; main detaches the thread, prints the string and      *)
(* returns, which destroys the string and ends the process.  Nothing       *)
(* orders the thread's accesses and main's: a read that is concurrent      *)
(* with the assignment may see the old text, the new one or neither, and   *)
(* an access after the string is destroyed is undefined.                   *)
(***************************************************************************)
OriginalMessage == "A friend in need is a friend indeed."

ModifiedMessage == "Beauty is only skin-deep"

DetachThreads == {"main", "modifier"}

\* What a read of the string can give.
ReadMessage ==
    IF ~alive \/ pc["modifier"] = "assigning"
    THEN {OriginalMessage, ModifiedMessage, "torn"}
    ELSE {message}

\* An access to the string after main has destroyed it may end the program.
AfterAccess == IF alive THEN {"no"} ELSE {"no", "access to a destroyed string"}

DetachInit ==
    /\ prog = "Example6"
    /\ pc = [t \in DetachThreads |-> IF t = "main" THEN "detach" ELSE "assign"]
    /\ i = [t \in DetachThreads |-> 0]
    /\ part = [t \in DetachThreads |-> 0]
    /\ mutex = <<>>
    /\ owns = <<>>
    /\ log_file = NewStream
    /\ init_flag = "fresh"
    /\ handle = [h \in {"t1"} |-> "modifier"]
    /\ joins = <<>>
    /\ terminated = "no"
    /\ throw_at = 0
    /\ NoFutures
    /\ NoQueue
    /\ message = OriginalMessage
    /\ alive = TRUE
    /\ said = [t \in DetachThreads |-> "nothing"]

\* t1.detach(): t1 owns no thread any more, and nobody will join it.
MainDetach ==
    /\ prog = "Example6"
    /\ terminated = "no"
    /\ pc["main"] = "detach"
    /\ handle' = [handle EXCEPT !["t1"] = "none"]
    /\ pc' = [pc EXCEPT !["main"] = "print"]
    /\ UNCHANGED <<prog, queueVars, detachVars, i, part, log_file, lockVars, joins, terminated, throw_at, futureVars>>

\* cout << "Main says: " << message << endl;
MainPrint ==
    /\ prog = "Example6"
    /\ terminated = "no"
    /\ pc["main"] = "print"
    /\ \E text \in ReadMessage : said' = [said EXCEPT !["main"] = text]
    /\ pc' = [pc EXCEPT !["main"] = "return"]
    /\ UNCHANGED <<prog, queueVars, message, alive, i, part, log_file, lockVars, taskVars, futureVars>>

\* return 0: t1, modifier and message are destroyed.
MainReturn ==
    /\ prog = "Example6"
    /\ terminated = "no"
    /\ pc["main"] = "return"
    /\ alive' = FALSE
    /\ terminated' = DestroyTerminated("t1")
    /\ pc' = [pc EXCEPT !["main"] = "exit"]
    /\ UNCHANGED <<prog, queueVars, message, said, i, part, log_file, lockVars, handle, joins, throw_at, futureVars>>

\* The process ends, and the detached thread with it wherever it is.
MainExit ==
    /\ prog = "Example6"
    /\ terminated = "no"
    /\ pc["main"] = "exit"
    /\ pc' = [t \in DetachThreads |-> IF pc[t] = "done" \/ t = "main" THEN "done" ELSE "killed"]
    /\ UNCHANGED <<prog, queueVars, detachVars, i, part, log_file, lockVars, taskVars, futureVars>>

\* *msg = "Beauty is only skin-deep" begins,
ModifierAssign ==
    /\ prog = "Example6"
    /\ terminated = "no"
    /\ pc["modifier"] = "assign"
    /\ terminated' \in AfterAccess
    /\ pc' = [pc EXCEPT !["modifier"] = "assigning"]
    /\ UNCHANGED <<prog, queueVars, detachVars, i, part, log_file, lockVars, handle, joins, throw_at, futureVars>>

\* and ends.
ModifierAssigned ==
    /\ prog = "Example6"
    /\ terminated = "no"
    /\ pc["modifier"] = "assigning"
    /\ message' = ModifiedMessage
    /\ terminated' \in AfterAccess
    /\ pc' = [pc EXCEPT !["modifier"] = "print"]
    /\ UNCHANGED <<prog, queueVars, alive, said, i, part, log_file, lockVars, handle, joins, throw_at, futureVars>>

\* cout << "Thread says: " << *msg << endl;
ModifierPrint ==
    /\ prog = "Example6"
    /\ terminated = "no"
    /\ pc["modifier"] = "print"
    /\ \E text \in ReadMessage : said' = [said EXCEPT !["modifier"] = text]
    /\ terminated' \in AfterAccess
    /\ pc' = [pc EXCEPT !["modifier"] = "done"]
    /\ UNCHANGED <<prog, queueVars, message, alive, i, part, log_file, lockVars, handle, joins, throw_at, futureVars>>

DetachNext ==
    \/ MainDetach
    \/ MainPrint
    \/ MainReturn
    \/ MainExit
    \/ ModifierAssign
    \/ ModifierAssigned
    \/ ModifierPrint

SpecDetach == DetachInit /\ [][DetachNext]_vars

(***************************************************************************)
(* The programs of concurrent_programming_examples.cpp that start a        *)
(* thread and share something with it.                                     *)
(***************************************************************************)
ExamplesInit == RaceInit \/ TaskInit \/ DetachInit

ExamplesNext == RaceNext \/ TaskNext \/ DetachNext

SpecExamples == ExamplesInit /\ [][ExamplesNext]_vars

(***************************************************************************)
(* Reading a stream back: its whole lines, and the chunks after the last   *)
(* whole line.                                                             *)
(***************************************************************************)
LineLen == Len(LogLine("", 0))

NumLines(c) == Len(c) \div LineLen

LineAt(c, n) == SubSeq(c, LineLen * (n - 1) + 1, LineLen * n)

LinesIn(c) == [n \in 1..NumLines(c) |-> LineAt(c, n)]

Partial(c) == SubSeq(c, LineLen * NumLines(c) + 1, Len(c))

IsLineOf(thread_id, line) == line[2] = thread_id

LinesOf(c, t) == SelectSeq(LinesIn(c), LAMBDA line : IsLineOf(ThreadId(t), line))

\* The value of thread t's n-th call, and the lines of its first k calls.
ValueOfCall(t, n) == IF t = "main" THEN n - 1 ELSE -n

CallLines(t, k) == [n \in 1..k |-> LogLine(ThreadId(t), ValueOfCall(t, n))]

\* The lines thread t has finished writing.
Written(t) == CallsDone(t, i[t]) + (IF pc[t] = "unlock" THEN 1 ELSE 0)

Inside == {t \in LogThreads : pc[t] \in {"insert", "unlock"}}

LogDone == \A t \in LogThreads : pc[t] = "done"

(***************************************************************************)
(* C1.  Serial equivalence of the guarded calls.  At most one thread is    *)
(* inside the critical section, and it holds the mutex; the stream is      *)
(* always a sequence of whole lines, followed only by the line the thread  *)
(* inside is writing (no torn line); every thread's lines are those of     *)
(* its calls, in the order of the calls (none lost, none twice); and when  *)
(* both threads have finished and no insertion failed, the stream holds    *)
(* exactly 2 * NumCalls lines, NumCalls of each thread: what running the   *)
(* calls one after the other, in the order of the lines, writes.           *)
(***************************************************************************)
C1_SerialEquivalence ==
    LET c == log_file.chunks IN
    /\ Cardinality(Inside) <= 1
    /\ \A t \in Inside : mutex[LogMutex] = {t}
    /\ \A t \in LogThreads : LinesOf(c, t) = CallLines(t, Len(LinesOf(c, t)))
    /\ Len(LinesOf(c, "main")) + Len(LinesOf(c, "thread1")) = NumLines(c)
    /\ log_file.good =>
          /\ \A t \in LogThreads : Len(LinesOf(c, t)) = Written(t)
          /\ \A t \in LogThreads :
                pc[t] = "insert" =>
                    Partial(c) = SubSeq(LogLine(ThreadId(t), i[t]), 1, part[t])
          /\ (\A t \in LogThreads : pc[t] # "insert") => Partial(c) = <<>>
          /\ LogDone => NumLines(c) = 2 * NumCalls

\* Both threads have finished, no insertion failed, and the calls of the
\* two threads alternate in the stream.
C1_Witness ==
    /\ LogDone
    /\ log_file.good
    /\ NumLines(log_file.chunks) = 2 * NumCalls
    /\ IsLineOf("Thread 1", LineAt(log_file.chunks, 1))
    /\ IsLineOf("Main Thread", LineAt(log_file.chunks, 2))
    /\ IsLineOf("Thread 1", LineAt(log_file.chunks, 3))
(***************************************************************************)
(* C2.  The stream of a guarded class is touched only under its mutex: a   *)
(* thread that inserts into the stream holds every mutex of the object.    *)
(***************************************************************************)
Accessing(t) == pc[t] = "insert"

C2_StreamOnlyUnderMutex ==
    \A t \in DOMAIN pc : Accessing(t) => Held(t) = DOMAIN mutex

(***************************************************************************)
(* C3.  No lock outlives the call that took it, whether or not the write   *)
(* failed: a thread that is not inside a logging call (it is between two   *)
(* calls, or has made them all) holds no mutex and its unique_lock owns    *)
(* none, so every mutex that is held is held by a thread still inside a    *)
(* call (or by DeferredLogger's main, between transfer_lock and unlock).   *)
(***************************************************************************)
Outside(t) == pc[t] \in {"for", "call", "join", "return", "done"}

C3_NoLockLeak ==
    /\ \A t \in DOMAIN pc : Outside(t) => Held(t) = {} /\ ~owns[t]
    /\ \A m \in DOMAIN mutex : \A t \in mutex[m] : ~Outside(t)

\* Logger: main's first call failed at its first insertion and has
\* returned, and thread1 has taken file_mutex after it.
C3_Witness ==
    /\ prog = "Logger"
    /\ ~log_file.good
    /\ log_file.chunks = <<>>
    /\ pc["main"] = "for"
    /\ i["main"] = 1
    /\ i["thread1"] = -1
    /\ pc["thread1"] = "insert"
    /\ mutex["file_mutex"] = {"thread1"}

(***************************************************************************)
(* C5.  Every call that waits for the mutex gets it and returns; a thread  *)
(* comes to hold the mutex only by the one lock step of a call; and both   *)
(* threads make all their calls and main's join returns.                   *)
(***************************************************************************)
C5_EveryWaiterAcquires ==
    /\ \A t \in LogThreads :
          (pc[t] = "lock_guard") ~> (pc[t] = "insert" /\ mutex[LogMutex] = {t})
    /\ \A t \in LogThreads : (pc[t] = "insert") ~> (pc[t] = "for" /\ Held(t) = {})
    /\ [][\A t \in LogThreads :
             (t \notin mutex[LogMutex] /\ t \in mutex'[LogMutex])
                 => (pc[t] = "lock_guard" /\ pc'[t] = "insert")]_vars
    /\ <>(LogDone /\ \A t \in LogThreads : CallsDone(t, i[t]) = NumCalls)

\* thread1 has made no call yet and waits for the mutex while main makes
\* its last call.
C5_Witness ==
    /\ prog \in LogProgs
    /\ pc["thread1"] = "lock_guard"
    /\ i["thread1"] = FirstValue("thread1")
    /\ mutex[LogMutex] = {"main"}
    /\ i["main"] = NumCalls - 1
(***************************************************************************)
(* C4.  std::lock takes mutex1 and mutex2 all or nothing.  A mutex has at  *)
(* most one holder; a caller that is blocked waiting for a mutex holds no  *)
(* mutex, so no two callers each hold one mutex and wait for the other's;  *)
(* while some caller has not finished, some caller can take a step; and a  *)
(* caller writes the log only while it holds both mutexes.                 *)
(***************************************************************************)
Blocked(t) == \E m \in SafeMutexes : pc[t] = LockLabel(m) /\ ~Free(m)

WaitsFor(t, m) == pc[t] = LockLabel(m)

C4_AllOrNothing ==
    /\ \A m \in SafeMutexes : Cardinality(mutex[m]) <= 1
    /\ \A t \in Callers : (\E m \in SafeMutexes : WaitsFor(t, m)) => Held(t) = {}
    /\ ~ \E t, u \in Callers : \E m \in SafeMutexes :
            /\ t # u
            /\ t \in mutex[m] /\ WaitsFor(t, Other(m))
            /\ u \in mutex[Other(m)] /\ WaitsFor(u, m)
    /\ (\E t \in Callers : pc[t] # "done") => ENABLED SafeNext
    /\ \A t \in Callers : pc[t] \in {"insert", "unlock2"} => Held(t) = SafeMutexes

\* One caller writes, holding both mutexes, while another, which is to
\* lock mutex2 first, is blocked on it.
C4_Witness ==
    \E t, u \in Callers :
        /\ pc[t] = "insert"
        /\ part[t] > 0
        /\ Held(t) = SafeMutexes
        /\ WaitsFor(u, "mutex2")
        /\ Blocked(u)
(***************************************************************************)
(* C6.  ~ThreadGuard does not return while the guarded thread runs: once   *)
(* main is past the destructor, in Example 4 (the guard refers to t1) and  *)
(* in Example 9 (the guard owns the moved thread object), the thread has   *)
(* finished, the guarded object is no longer joinable, it was joined       *)
(* once, by the destructor, and std::terminate was not called.             *)
(***************************************************************************)
PastGuard == pc["main"] \in {"~t1", "~guard.t", "done", "terminate"}

C6_GuardWaits ==
    prog \in GuardProgs =>
        /\ terminated = "no"
        /\ PastGuard =>
              /\ pc[GuardedThread] = "done"
              /\ ~Joinable(GuardedHandle)
              /\ joins = << <<GuardedHandle, GuardedThread>> >>
        /\ ~PastGuard => joins = <<>>

\* Example 4: main has returned, after the destructor's join; the writer
\* had still been writing when main closed the file (its insertion failed).
C6_Witness ==
    /\ prog = "Example4"
    /\ pc["main"] = "done"
    /\ pc["writer"] = "done"
    /\ joins = << <<"t1", "writer">> >>
    /\ ~log_file.good

(***************************************************************************)
(* C7.  A move hands the thread over.  In Examples 8 and 9 the thread of   *)
(* printMessage is owned by exactly one std::thread object until it is     *)
(* joined and by none after; the moved-from objects (t1, and the           *)
(* parameter t_) own nothing from the move on, so their destructors        *)
(* neither join nor call std::terminate; and the thread is joined once,    *)
(* through the object it was moved to.                                     *)
(***************************************************************************)
Owners(u) == {h \in DOMAIN handle : handle[h] = u}

JoinedThreads == {joins[k][2] : k \in 1..Len(joins)}

Destination == IF prog = "Example8" THEN "t2" ELSE "guard.t"

C7_MoveTransfersOwnership ==
    prog \in MoveProgs =>
        /\ Cardinality(Owners("printer")) = IF "printer" \in JoinedThreads THEN 0 ELSE 1
        /\ pc["main"] # "move" => ~Joinable("t1")
        /\ (prog = "Example9" /\ pc["main"] \notin {"move", "move_member"})
              => ~Joinable("t_")
        /\ terminated = "no"
        /\ joins \in {<<>>, << <<Destination, "printer">> >>}
        /\ pc["main"] = "done" => joins # <<>>

\* Example 9: main has returned, after the one join through guard.t.
C7_Witness ==
    /\ prog = "Example9"
    /\ pc["main"] = "done"
    /\ joins = << <<"guard.t", "printer">> >>
    /\ Owners("printer") = {}
    /\ DOMAIN handle = {"t1", "t_", "guard.t"}

(***************************************************************************)
(* C8.  Example 3 joins t1 exactly once on the way out of main, whether    *)
(* the loop throws or not: when main rethrows, closes the file or          *)
(* returns, the writer has finished and t1 was joined once; join is never  *)
(* called on an object that is not joinable and t1 is never destroyed      *)
(* joinable, so std::terminate is called only for the rethrown exception.  *)
(***************************************************************************)
LeavingMain == pc["main"] \in {"rethrow", "terminate", "close", "~t1", "done"}

C8_JoinThenRethrow ==
    prog = "Example3" =>
        /\ LeavingMain =>
              /\ joins = << <<"t1", "writer">> >>
              /\ pc["writer"] = "done"
              /\ ~Joinable("t1")
        /\ ~LeavingMain => joins = <<>> /\ Joinable("t1")
        /\ terminated \in {"no", "uncaught exception"}
        /\ terminated = "uncaught exception" => pc["main"] = "terminate"

\* main threw in its first iteration, joined the writer, which had all its
\* lines still to write, and rethrew.
C8_Witness ==
    /\ prog = "Example3"
    /\ throw_at = 0
    /\ terminated = "uncaught exception"
    /\ pc["main"] = "terminate"
    /\ joins = << <<"t1", "writer">> >>
    /\ SubSeq(log_file.chunks, 1, Len(WriterLine("main", 0))) = WriterLine("main", 0)
    /\ Len(log_file.chunks) = (WriterLoops + 1) * Len(WriterLine("main", 0))
(***************************************************************************)
(* C9.  get() returns the value that was set, and not before it was set.   *)
(* In the promise section and in the shared_future section, a thread that  *)
(* is past its get() has got the value of set_value (6, or 7), the shared  *)
(* state holds that value, and the thread that sets it is past             *)
(* set_value; so the two readers of the shared_future have the same        *)
(* value, whichever of them called get() before the value was set.         *)
(***************************************************************************)
Producer == IF prog = "promise" THEN "promiseThread" ELSE "main"

PastGet(t) == pc[t] \in {"value", "join", "done"}

C9_GetReturnsSetValue ==
    prog \in {"promise", "shared_future"} =>
        \A t \in Readers :
            /\ PastGet(t) <=> got[t] # <<>>
            /\ PastGet(t) =>
                  /\ got[t] = <<IF prog = "promise" THEN PromiseValue ELSE SharedValue>>
                  /\ cell.value = got[t]
                  /\ pc[Producer] \in {"join", "done"}

\* Both readers of the shared_future have returned from get() with 7, and
\* main has joined them.
C9_Witness ==
    /\ prog = "shared_future"
    /\ pc["main"] = "done"
    /\ got["sharedThread1"] = <<SharedValue>>
    /\ got["sharedThread2"] = <<SharedValue>>

(***************************************************************************)
(* C10.  wait_for on a shared state without a value times out and changes  *)
(* nothing: after it, and until the objects are destroyed, the outcome is  *)
(* "timeout", the shared state is as it was created (no value, the future  *)
(* valid, the promise not broken), nothing was got, and a set_value on     *)
(* this state makes it ready with exactly the value set for a get().       *)
(***************************************************************************)
LaterValues == {PromiseValue, SharedValue}

NumPushed ==
    ProducerCount - i["producer"]
        + (IF pc["producer"] \in {"unlock", "notify_one", "sleep_for", "decrement"}
           THEN 1 ELSE 0)

\* The first k values pushed: 10, 9, ...
PushOrder(k) == [n \in 1..k |-> ProducerCount - n + 1]

InHand == IF pc["consumer"] = "print" THEN <<i["consumer"]>> ELSE <<>>

\* The deque from its back to its front.
BackToFront(q) == [n \in 1..Len(q) |-> q[Len(q) - n + 1]]

Range(s) == {s[n] : n \in DOMAIN s}

QueueDone == \A t \in QueueThreads : pc[t] = "done"

(***************************************************************************)
(* C11.  No loss and no duplication in the queue.  In every state the      *)
(* values printed, the value popped and not yet printed and the values in  *)
(* dataQueue are, counted together, exactly the values pushed so far, each *)
(* once; and when the consumer has left its loop (it has read the          *)
(* sentinel 1) it has printed exactly ProducerCount values, each of        *)
(* 10..1 once, and dataQueue is empty.                                     *)
(***************************************************************************)
C11_EachItemOnce ==
    prog = "queue" =>
        /\ terminated = "no"
        /\ Len(received) + Len(InHand) + Len(dataQueue) = NumPushed
        /\ Range(received) \cup Range(InHand) \cup Range(dataQueue)
              = Range(PushOrder(NumPushed))
        /\ pc["consumer"] = "done" =>
              /\ Len(received) = ProducerCount
              /\ Range(received) = 1..ProducerCount
              /\ dataQueue = <<>>
              /\ NumPushed = ProducerCount

\* The consumer has left its loop with the 10 values, and main has joined
\* both threads.
C11_Witness ==
    /\ prog = "queue"
    /\ QueueDone
    /\ Len(received) = ProducerCount
    /\ dataQueue = <<>>

(***************************************************************************)
(* C12 as stated: when the producer has finished (it has left its loop),   *)
(* the consumer has already read the last value, 1.                        *)
(***************************************************************************)
C12_LastReadBeforeProducerDone ==
    (prog = "queue" /\ pc["producer"] = "done") => i["consumer"] = Sentinel

(***************************************************************************)
(* C12 as amended.  When the consumer has left its loop it has printed     *)
(* exactly 10 values, the last of them 1 and no earlier one 1, and the     *)
(* producer has made its 10th push; the consumer reads 1 only after that   *)
(* push, before or after the producer finishes.                            *)
(***************************************************************************)
C12_TenValuesLastIsSentinel ==
    prog = "queue" =>
        /\ pc["consumer"] = "done" =>
              /\ Len(received) = ProducerCount
              /\ received[ProducerCount] = Sentinel
              /\ \A n \in 1..(ProducerCount - 1) : received[n] # Sentinel
        /\ (pc["consumer"] \notin {"while", "lock", "wait", "blocked", "relock", "back"}
                /\ i["consumer"] = Sentinel) => NumPushed = ProducerCount

\* The consumer has printed its 10th value, 1, and left its loop while the
\* producer is still in the iteration of its 10th push.
C12_Witness ==
    /\ prog = "queue"
    /\ pc["consumer"] = "done"
    /\ pc["producer"] = "sleep_for"
    /\ Len(received) = ProducerCount
    /\ received[ProducerCount] = Sentinel

(***************************************************************************)
(* C13.  Whenever a condition-variable wait has returned, what was waited  *)
(* for holds.  The consumer past dataCondVar.wait finds dataQueue not      *)
(* empty until it has popped; main past timeCondVar.wait_for, which        *)
(* nobody notifies, finds that the 200 ms have passed.                     *)
(***************************************************************************)
C13_WaitReturnsWithCondition ==
    /\ (prog = "queue" /\ pc["consumer"] \in {"back", "pop_back"}) => NotEmpty(dataQueue)
    /\ (prog = "timed_wait" /\ pc["main"] \in {"return", "done"}) => status = "timeout"

(***************************************************************************)
(* C14.  The waiting consumer is woken.  Under fair scheduling of the      *)
(* three threads (spurious wakeups are not owed to anyone): a consumer     *)
(* that is blocked in the wait while dataQueue has data sooner or later    *)
(* prints one more value; and sooner or later the consumer has read the    *)
(* sentinel 1, the producer and the consumer have finished, and main has   *)
(* returned from both joins, that of producerThread first.                 *)
(***************************************************************************)
C14_ConsumerIsWoken ==
    /\ \A n \in 0..(ProducerCount - 1) :
          (prog = "queue" /\ pc["consumer"] = "blocked" /\ NotEmpty(dataQueue)
              /\ Len(received) = n) ~> (Len(received) > n)
    /\ (prog = "queue") ~>
          (/\ QueueDone
           /\ i["consumer"] = Sentinel
           /\ joins = <<<<"producerThread", "producer">>, <<"consumerThread", "consumer">>>>)

\* The consumer is blocked in the wait, the producer has pushed a value
\* and has not yet called notify_one.
C14_Witness ==
    /\ prog = "queue"
    /\ pc["consumer"] = "blocked"
    /\ "consumer" \in waiting
    /\ NotEmpty(dataQueue)
    /\ pc["producer"] = "notify_one"

(***************************************************************************)
(* C20.  The queue is first in, first out.  The values printed, then the   *)
(* value popped and not yet printed, then dataQueue read from its back to  *)
(* its front, are the values pushed so far in the order of the pushes      *)
(* (10, 9, ...); so the consumer prints a prefix of 10, 9, ..., 1, and     *)
(* when it has read the sentinel 1 nothing pushed earlier is queued.       *)
(***************************************************************************)
C20_FirstInFirstOut ==
    prog = "queue" =>
        /\ received \o InHand \o BackToFront(dataQueue) = PushOrder(NumPushed)
        /\ received = PushOrder(Len(received))
        /\ (pc["consumer"] = "pop_back" /\ i["consumer"] = Sentinel)
              => dataQueue = <<Sentinel>>

\* Two values are queued, the older at the back, and the consumer is about
\* to read.
C20_Witness ==
    /\ prog = "queue"
    /\ Len(dataQueue) >= 2
    /\ pc["consumer"] = "back"
    /\ received # <<>>

(***************************************************************************)
(* Reading the stream of Examples 2, 3 and 4: a line is three insertions,  *)
(* the label, the number and the end of line.  The stream is made of whole *)
(* lines (and the start of one) when every label is the first of three     *)
(* chunks and every end of line the third.                                 *)
(***************************************************************************)
IsLabel(c) == c \in {"From main: ", "From thread: "}

WholeWriterLines(c) ==
    \A n \in 1..Len(c) :
        /\ IsLabel(c[n]) <=> n % 3 = 1
        /\ c[n] = "\n" <=> n % 3 = 0

MidLine(t) == part[t] > 0

(***************************************************************************)
(* C15.  Nothing keeps the two writers of Example 2 apart.  In every       *)
(* state a thread that is at an insertion of its line can make it, also    *)
(* while the other thread is in the middle of a line of its own; the       *)
(* witness is a state this leads to, where both threads are in the middle  *)
(* of a line and the stream is no longer a sequence of whole lines (a      *)
(* torn line), which the guarded loggers never reach.                      *)
(***************************************************************************)
C15_WritersNotKeptApart ==
    prog = "Example2" =>
        /\ mutex = <<>>
        /\ \A t \in WriterThreads : pc[t] = "insert" => ENABLED RaceInsert(t)

\* Both threads are in the middle of a line and the stream holds a torn
\* line.
C15_Witness ==
    /\ prog = "Example2"
    /\ MidLine("main")
    /\ MidLine("writer")
    /\ ~WholeWriterLines(log_file.chunks)

(***************************************************************************)
(* C19.  In Example 4 the worker has finished writing when logFile is      *)
(* closed: once main has executed logFile.close(), the writer thread has   *)
(* left its loop.                                                          *)
(***************************************************************************)
C19_WriterDoneBeforeClose ==
    (prog = "Example4" /\ ~log_file.open) => pc["writer"] = "done"

(***************************************************************************)
(* C16.  In Example 6 main prints the modified message: once main is past  *)
(* its cout line, the text it printed is "Beauty is only skin-deep".       *)
(***************************************************************************)
C16_MainPrintsModified ==
    (prog = "Example6" /\ pc["main"] \in {"return", "exit", "done"})
        => said["main"] = ModifiedMessage

(***************************************************************************)
(* C17.  OnceLogger::initialize runs once, and before any write.  At most  *)
(* one thread is inside initialize, and exactly while init_flag is         *)
(* "running"; init_flag only goes from "fresh" to "running" to "done" and  *)
(* stays "done"; log_file is opened by the step that ends the one          *)
(* initialize and by no other; and a thread is at its write, or has        *)
(* written, only when initialize has finished and the file is open.        *)
(***************************************************************************)
Initializing == {t \in LogThreads : pc[t] = "initialize"}

C17_InitializeOnce ==
    /\ [](prog = "OnceLogger" =>
            /\ Cardinality(Initializing) <= 1
            /\ Initializing # {} <=> init_flag = "running"
            /\ log_file.open <=> init_flag = "done"
            /\ \A t \in LogThreads :
                  (pc[t] = "insert" \/ i[t] # FirstValue(t)) => init_flag = "done"
            /\ log_file.chunks # <<>> => init_flag = "done")
    /\ [][prog = "OnceLogger" =>
            /\ init_flag = "running" => init_flag' # "fresh"
            /\ init_flag = "done" => init_flag' = "done"
            /\ init_flag = "fresh" => init_flag' # "done"
            /\ log_file'.open # log_file.open =>
                  (init_flag = "running" /\ init_flag' = "done")]_vars

\* One thread is inside initialize while the other is at its own first
\* call of call_once, and waits.
C17_Witness ==
    /\ prog = "OnceLogger"
    /\ init_flag = "running"
    /\ pc["main"] = "call_once"
    /\ pc["thread1"] = "initialize"
    /\ i["main"] = FirstValue("main")

(***************************************************************************)
(* C18.  transfer_lock hands main a lock that owns file_mutex.  While      *)
(* main is between the return of transfer_lock and its unlock(), main is   *)
(* the one holder of file_mutex and no log_data call is in its critical    *)
(* section; file_mutex never has two holders; after unlock() main neither  *)
(* owns nor holds it; and the destruction of main's lock at return leaves  *)
(* file_mutex as it is, also when a log_data call holds it then.           *)
(***************************************************************************)
InCritical == {t \in Callers : pc[t] \in {"insert", "unlock"}}

C18_TransferredLockOwns ==
    /\ [](prog = "DeferredLogger" =>
            /\ Cardinality(mutex["file_mutex"]) <= 1
            /\ \A t \in DeferredThreads : owns[t] <=> t \in mutex["file_mutex"]
            /\ pc["main"] = "unlock" =>
                  (mutex["file_mutex"] = {"main"} /\ InCritical = {})
            /\ InCritical \subseteq mutex["file_mutex"]
            /\ pc["main"] \in {"return", "done"} =>
                  (~owns["main"] /\ "main" \notin mutex["file_mutex"]))
    /\ [][(prog = "DeferredLogger" /\ pc["main"] = "return" /\ pc'["main"] = "done")
            => mutex' = mutex]_vars

\* main holds the transferred lock and a log_data call waits in lock().
C18_Witness ==
    /\ prog = "DeferredLogger"
    /\ pc["main"] = "unlock"
    /\ mutex["file_mutex"] = {"main"}
    /\ \E t \in Callers : pc[t] = "lock"

(***************************************************************************)
(* C21.  The detached thread of Example 6 touches message only while it    *)
(* exists, and never while main reads it.  Every step of the thread that   *)
(* writes or reads *msg is taken while main's locals are alive; main does  *)
(* not destroy them while the thread's assignment is under way; and main   *)
(* does not read message while that assignment is under way.               *)
(***************************************************************************)
C21_AccessOnlyWhileAlive ==
    [][prog = "Example6" =>
          /\ (pc'["modifier"] # pc["modifier"] /\ pc'["modifier"] # "killed") => alive
          /\ pc'["modifier"] = "assigning" => alive'
          /\ (pc["main"] = "print" /\ pc'["main"] = "return")
                => pc["modifier"] # "assigning"]_vars

====
